---- MODULE Spec2Model ----
(***************************************************************************)
(* Model of the Alexandria API client (src/src/lib.rs): the request        *)
(* executor do_req, the four method wrappers, and the typestate handle     *)
(* Server<Unauth> / Server<Auth> with its operations.                      *)
(*                                                                         *)
(* Text is modelled as a sequence of tokens: a token is a run of letters,  *)
(* a run of digits, or one punctuation character.  Url::parse is modelled  *)
(* on such sequences by the steps the url crate performs (scheme, then for *)
(* a relative scheme authority = host [":" port], then path and query).    *)
(***************************************************************************)
EXTENDS Integers, Sequences, FiniteSets, TLC

\* ------------------------------------------------------------------ bounds
\* Number of handle slots; a slot holds one handle lineage.
MaxHandles == 2
\* Number of handle slots of the two-thread specification.
ConcHandles == 2

\* The threads of the sequential client: one thread makes the calls.
MainThread == {"main"}
HandleIds == 1..MaxHandles

\* ------------------------------------------------------------------ text
Letters == {"http", "host", "mailto", "book", "auth", "user", "pass", "count",
            "checkout", "checkin", "bob", "pw"}
Digits == {"80", "1", "9"}
SchemeExtra == {"+", "-", "."}
Blank == " "

\* Schemes the url crate treats as relative (authority-based).
RelativeSchemes == {"http", "https", "ftp", "ws", "wss", "gopher"}
\* Characters that end the host or the port.
AuthorityEnd == {"/", "?", "#"}
\* Characters a domain may not contain.
ForbiddenHost == {Blank, "#", "%", "/", ":", "?", "@", "[", "]"}

\* Index of the first element of s that lies in S, Len(s)+1 when none.
FirstIn(s, S) ==
    IF \E i \in 1..Len(s) : s[i] \in S
    THEN CHOOSE i \in 1..Len(s) : s[i] \in S /\ \A j \in 1..(i-1) : s[j] \notin S
    ELSE Len(s) + 1

\* Index of the first element of s that does not lie in S, Len(s)+1 when none.
FirstNotIn(s, S) ==
    IF \E i \in 1..Len(s) : s[i] \notin S
    THEN CHOOSE i \in 1..Len(s) : s[i] \notin S /\ \A j \in 1..(i-1) : s[j] \in S
    ELSE Len(s) + 1

\* Index of the last element of s that does not lie in S, 0 when none.
LastNotIn(s, S) ==
    IF \E i \in 1..Len(s) : s[i] \notin S
    THEN CHOOSE i \in 1..Len(s) : s[i] \notin S /\ \A j \in (i+1)..Len(s) : s[j] \in S
    ELSE 0

\* input.trim_matches(whitespace): strip blanks at both ends.
Trim(s) == SubSeq(s, FirstNotIn(s, {Blank}), LastNotIn(s, {Blank}))

ParseErr(e) == [ok |-> FALSE, err |-> e, scheme |-> <<>>, host |-> <<>>,
                port |-> <<>>, rest |-> <<>>]

\* Url::parse(input) without a base URL.
ParseUrl(input) ==
    LET s == Trim(input)
        colon == FirstIn(s, {":"})
        hasScheme == /\ Len(s) > 0
                     /\ s[1] \in Letters
                     /\ colon <= Len(s)
                     /\ \A i \in 1..(colon-1) : s[i] \in Letters \cup Digits \cup SchemeExtra
    IN  IF ~hasScheme THEN ParseErr("RelativeUrlWithoutBase")
        ELSE
          LET schemeToks == SubSeq(s, 1, colon - 1)
              afterScheme == SubSeq(s, colon + 1, Len(s))
          IN  IF Len(schemeToks) = 1 /\ schemeToks[1] \in RelativeSchemes
              THEN \* parse_absolute_url: skip slashes, host, port, path
                LET auth == SubSeq(afterScheme, FirstNotIn(afterScheme, {"/"}),
                                   Len(afterScheme))
                    hostEnd == FirstIn(auth, AuthorityEnd \cup {":"})
                    hostToks == SubSeq(auth, 1, hostEnd - 1)
                    hasPort == hostEnd <= Len(auth) /\ auth[hostEnd] = ":"
                    afterHost == SubSeq(auth, hostEnd + 1, Len(auth))
                    portEnd == FirstIn(afterHost, AuthorityEnd)
                    portToks == IF hasPort THEN SubSeq(afterHost, 1, portEnd - 1)
                                ELSE <<>>
                    rest == IF hasPort THEN SubSeq(afterHost, portEnd, Len(afterHost))
                            ELSE SubSeq(auth, hostEnd, Len(auth))
                IN  IF Len(hostToks) = 0 THEN ParseErr("EmptyHost")
                    ELSE IF \E i \in 1..Len(hostToks) : hostToks[i] \in ForbiddenHost
                    THEN ParseErr("InvalidDomainCharacter")
                    ELSE IF \E i \in 1..Len(portToks) : portToks[i] \notin Digits
                    THEN ParseErr("InvalidPort")
                    ELSE [ok |-> TRUE, err |-> "", scheme |-> schemeToks,
                          host |-> hostToks, port |-> portToks, rest |-> rest]
              ELSE \* non-relative scheme: everything after ':' is scheme data
                [ok |-> TRUE, err |-> "", scheme |-> schemeToks, host |-> <<>>,
                 port |-> <<>>, rest |-> afterScheme]

\* ------------------------------------------------------------------ inputs
\* Base addresses handed to Server::new.
BaseAddrs == { <<"http", ":", "/", "/", "host">>,
               <<"host", ":", "80">>,
               <<"mailto", ":", "host">>,
               <<"host">>,
               <<"http", ":", "/", "/">> }
Isbns == {"9", "#"}
StudentIds == {"1"}
Counts == {"1"}
Users == {"bob"}
Passes == {"pw"}
Books == {"book"}

\* Status codes a response can carry.
Statuses == {200, 401, 404, 500, 418, 201}
\* Response bodies the server can send.
Bodies == {"", "null", "true", "false", "[]", "{book}"}

\* ------------------------------------------------------------------ types
\* struct Unauth; struct Auth;
Unauth == "Unauth"
Auth == "Auth"

\* enum Error
Error == {"HttpError", "JsonError", "IoError", "NotFound", "InternalError",
          "ApiSaidNo", "AuthError", "GotNull"}

Ok(v) == [ok |-> TRUE, val |-> v, err |-> ""]
Err(e) == [ok |-> FALSE, val |-> "", err |-> e]
NoResult == [ok |-> FALSE, val |-> "", err |-> "pending"]

\* Option::None for the request body.
None == <<>>

\* impl Proto for Auth / impl Proto for Unauth
proto(marker) == IF marker = Auth THEN "http" ELSE "http"

\* json::encode(&obj)
Encode(obj) ==
    IF obj = None THEN <<>>
    ELSE IF obj[1] = "ActionRequest"
    THEN <<"{", "action", ":", obj[2], ",", "isbn", ":", obj[3], ",",
           "student_id", ":", obj[4], "}">>
    ELSE IF obj[1] = "Book" THEN <<"{", "isbn", ":", obj[2], "}">>
    ELSE <<"\"", obj[2], "\"">>

\* Decode with an Option<Book> decoder that rejects null.
DecodeNullIsError(U, str) ==
    CASE U = "bool" ->
           IF str = "true" THEN Ok("true")
           ELSE IF str = "false" THEN Ok("false") ELSE Err("JsonError")
      [] U = "unit" ->
           IF str = "null" THEN Ok("()") ELSE Err("JsonError")
      [] U = "Option<Book>" ->
           IF str = "{book}" THEN Ok("Some(book)") ELSE Err("JsonError")
      [] U = "Vec<Book>" ->
           IF str = "[]" THEN Ok("[]") ELSE Err("JsonError")
      [] OTHER -> Err("JsonError")

\* Decode with a bool decoder that reports false as a failure.
DecodeFalseIsError(U, str) ==
    CASE U = "bool" ->
           IF str = "true" THEN Ok("true") ELSE Err("JsonError")
      [] U = "unit" ->
           IF str = "null" THEN Ok("()") ELSE Err("JsonError")
      [] U = "Option<Book>" ->
           IF str = "null" THEN Ok("None")
           ELSE IF str = "{book}" THEN Ok("Some(book)") ELSE Err("JsonError")
      [] U = "Vec<Book>" ->
           IF str = "[]" THEN Ok("[]") ELSE Err("JsonError")
      [] OTHER -> Err("JsonError")

\* json::decode::<U>(str): the decoded value, or a decoder error.
Decode(U, str) ==
    CASE U = "bool" ->
           IF str = "true" THEN Ok("true")
           ELSE IF str = "false" THEN Ok("false") ELSE Err("JsonError")
      [] U = "unit" ->
           IF str = "null" THEN Ok("()") ELSE Err("JsonError")
      [] U = "Option<Book>" ->
           IF str = "null" THEN Ok("None")
           ELSE IF str = "{book}" THEN Ok("Some(book)") ELSE Err("JsonError")
      [] U = "Vec<Book>" ->
           IF str = "[]" THEN Ok("[]") ELSE Err("JsonError")
      [] OTHER -> Err("JsonError")

\* StatusError without the status::Unauthorized arm.
StatusErrorNoAuthArm(status) ==
    CASE status = 404 -> "NotFound"
      [] status = 500 -> "InternalError"
      [] status = 200 -> ""
      [] OTHER -> "ApiSaidNo"

\* match resp.status { ... } in do_req: the error for a status, "" for 200.
StatusError(status) ==
    CASE status = 404 -> "NotFound"
      [] status = 500 -> "InternalError"
      [] status = 401 -> "AuthError"
      [] status = 200 -> ""
      [] OTHER -> "ApiSaidNo"

\* ------------------------------------------------------------------ state
VARIABLES handles, calls
vars == <<handles, calls>>

\* Server<T> { base_url, proto }, with the ownership state of the slot:
\* "none" (never built), "live", "moved" (inside authenticate), "dropped".
NoHandle == [st |-> "none", base_url |-> <<>>, proto |-> Unauth]

IdleCall == [op |-> "none", h |-> 0, marker |-> Unauth, pc |-> "idle",
             arg |-> <<>>, url |-> <<>>, method |-> "none", data |-> None,
             U |-> "none", written |-> None, status |-> 0, body |-> "none",
             failed |-> "", res |-> NoResult, result |-> NoResult,
             trace |-> <<>>, serv |-> NoHandle]

Init ==
    /\ handles = [h \in HandleIds |-> NoHandle]
    /\ calls = [c \in MainThread |-> IdleCall]

\* A caller can start an operation when it is not inside one.
CanCall(c) == calls[c].pc \in {"idle", "done"}

\* A call that holds a borrow of (or owns) its handle.
InFlight(c) == calls[c].pc \notin {"idle", "done", "panicked"}

\* New without the match on Url::parse: every base yields a handle.
NewUnchecked(c, base) ==
    /\ CanCall(c)
    /\ \E h \in DOMAIN handles :
         /\ handles[h].st = "none"
         /\ \A g \in DOMAIN handles : g < h => handles[g].st # "none"
         /\ handles' = [handles EXCEPT ![h] =
                [st |-> "live", base_url |-> base, proto |-> Unauth]]
         /\ calls' = [calls EXCEPT ![c] =
                [IdleCall EXCEPT !.op = "new", !.h = h, !.pc = "done",
                                 !.arg = base, !.result = Ok("Server")]]

\* ------------------------------------------------------------------ new
\* Server::new(base)
New(c, base) ==
    /\ CanCall(c)
    /\ \E h \in DOMAIN handles :
         /\ handles[h].st = "none"
         /\ \A g \in DOMAIN handles : g < h => handles[g].st # "none"
         /\ IF ParseUrl(base).ok
            THEN /\ handles' = [handles EXCEPT ![h] =
                        [st |-> "live", base_url |-> base, proto |-> Unauth]]
                 /\ calls' = [calls EXCEPT ![c] =
                        [IdleCall EXCEPT !.op = "new", !.h = h, !.pc = "done",
                                         !.arg = base, !.result = Ok("Server")]]
            ELSE /\ handles' = handles
                 /\ calls' = [calls EXCEPT ![c] =
                        [IdleCall EXCEPT !.op = "new", !.pc = "done", !.arg = base,
                                         !.result = Err(ParseUrl(base).err)]]

\* ------------------------------------------------------------------ endpoints
\* Entering do_req(url, data, cb) after Url::parse(format!(...)) of the
\* request address; .unwrap()/.expect() panics when the parse fails.
Request(c, op, h, marker, arg, url, method, data, U) ==
    IF ParseUrl(url).ok
    THEN [IdleCall EXCEPT !.op = op, !.h = h, !.marker = marker, !.pc = "open",
                          !.arg = arg, !.url = url, !.method = method,
                          !.data = data, !.U = U]
    ELSE [IdleCall EXCEPT !.op = op, !.h = h, !.marker = marker,
                          !.pc = "panicked", !.arg = arg, !.url = url]

\* format!("{}://{}<suffix>", self.proto.proto(), base)
Address(marker, base, suffix) == <<proto(marker), ":", "/", "/">> \o base \o suffix

\* AnyReceiver as if the lookups sat in impl Server<Unauth>.
AnyReceiverUnauthOnly(h) == handles[h].st = "live" /\ handles[h].proto = Unauth

\* A &self method of impl<T: Proto> Server<T> can be called on any live handle.
AnyReceiver(h) == handles[h].st = "live"

\* AuthReceiver as if the privileged methods sat in impl<T: Proto> Server<T>.
AuthReceiverGeneric(h) == handles[h].st = "live"

\* A &self method of impl Server<Auth> can be called on a live Auth handle.
AuthReceiver(h) == handles[h].st = "live" /\ handles[h].proto = Auth

\* authenticate(self) of impl Server<Unauth> takes the handle by value: it
\* must be a live Unauth handle that no call in flight borrows.
UnauthOwnedReceiver(c, h) ==
    /\ handles[h].st = "live"
    /\ handles[h].proto = Unauth
    /\ \A d \in DOMAIN calls : d # c /\ InFlight(d) => calls[d].h # h

get_books(c, h, count) ==
    /\ CanCall(c)
    /\ AnyReceiver(h)
    /\ calls' = [calls EXCEPT ![c] =
          Request(c, "get_books", h, handles[h].proto, <<count>>,
                  Address(handles[h].proto, handles[h].base_url,
                          <<"/", "book", "?", "count", "=", count>>),
                  "GET", None, "Vec<Book>")]
    /\ UNCHANGED handles

get_book_by_isbn(c, h, isbn) ==
    /\ CanCall(c)
    /\ AnyReceiver(h)
    /\ calls' = [calls EXCEPT ![c] =
          Request(c, "get_book_by_isbn", h, handles[h].proto, <<isbn>>,
                  Address(handles[h].proto, handles[h].base_url,
                          <<"/", "book", "/", isbn>>),
                  "GET", None, "Option<Book>")]
    /\ UNCHANGED handles

\* authenticate formatting the address from self and building serv only
\* once the request has succeeded.
authenticateLateServ(c, h, user, pass) ==
    /\ CanCall(c)
    /\ UnauthOwnedReceiver(c, h)
    /\ LET req == Request(c, "authenticate", h, Unauth, <<user, pass>>,
                          Address(handles[h].proto, handles[h].base_url,
                                  <<"/", "auth", "?", "user", "=", user, "&",
                                    "pass", "=", pass>>),
                          "GET", None, "unit")
       IN  /\ calls' = [calls EXCEPT ![c] = req]
           /\ handles' = [handles EXCEPT ![h].st =
                            IF req.pc = "panicked" THEN "dropped" ELSE "moved"]

\* authenticate: serv = Server { base_url: self.base_url, proto: Auth } is
\* built first and the request address is formatted from serv; serv is a
\* local of the call until `match res` returns it.
authenticate(c, h, user, pass) ==
    /\ CanCall(c)
    /\ UnauthOwnedReceiver(c, h)
    /\ LET serv == [st |-> "live", base_url |-> handles[h].base_url, proto |-> Auth]
           sent == Request(c, "authenticate", h, Unauth, <<user, pass>>,
                           Address(serv.proto, serv.base_url,
                                   <<"/", "auth", "?", "user", "=", user, "&",
                                     "pass", "=", pass>>),
                           "GET", None, "unit")
           req == [sent EXCEPT !.serv = IF sent.pc = "panicked" THEN NoHandle
                                        ELSE serv]
       IN  /\ calls' = [calls EXCEPT ![c] = req]
           /\ handles' = [handles EXCEPT ![h].st =
                            IF req.pc = "panicked" THEN "dropped" ELSE "moved"]

checkout(c, h, isbn, student_id) ==
    /\ CanCall(c)
    /\ AuthReceiver(h)
    /\ calls' = [calls EXCEPT ![c] =
          Request(c, "checkout", h, handles[h].proto, <<isbn, student_id>>,
                  Address(handles[h].proto, handles[h].base_url, <<"/", "checkout">>),
                  "POST", <<"ActionRequest", "CheckOut", isbn, student_id>>, "bool")]
    /\ UNCHANGED handles

\* checkin building its ActionRequest with the action of checkout.
checkinSendsCheckOut(c, h, isbn, student_id) ==
    /\ CanCall(c)
    /\ AuthReceiver(h)
    /\ calls' = [calls EXCEPT ![c] =
          Request(c, "checkin", h, handles[h].proto, <<isbn, student_id>>,
                  Address(handles[h].proto, handles[h].base_url, <<"/", "checkin">>),
                  "POST", <<"ActionRequest", "CheckOut", isbn, student_id>>, "bool")]
    /\ UNCHANGED handles

checkin(c, h, isbn, student_id) ==
    /\ CanCall(c)
    /\ AuthReceiver(h)
    /\ calls' = [calls EXCEPT ![c] =
          Request(c, "checkin", h, handles[h].proto, <<isbn, student_id>>,
                  Address(handles[h].proto, handles[h].base_url, <<"/", "checkin">>),
                  "POST", <<"ActionRequest", "CheckIn", isbn, student_id>>, "bool")]
    /\ UNCHANGED handles

update_book(c, h, isbn, book) ==
    /\ CanCall(c)
    /\ AuthReceiver(h)
    /\ calls' = [calls EXCEPT ![c] =
          Request(c, "update_book", h, handles[h].proto, <<isbn, book>>,
                  Address(handles[h].proto, handles[h].base_url,
                          <<"/", "book", "/", isbn>>),
                  "POST", <<"Book", book>>, "bool")]
    /\ UNCHANGED handles

add_book(c, h, book) ==
    /\ CanCall(c)
    /\ AuthReceiver(h)
    /\ calls' = [calls EXCEPT ![c] =
          Request(c, "add_book", h, handles[h].proto, <<book>>,
                  Address(handles[h].proto, handles[h].base_url, <<"/", "book">>),
                  "PUT", <<"Book", book>>, "bool")]
    /\ UNCHANGED handles

delete_book(c, h, isbn) ==
    /\ CanCall(c)
    /\ AuthReceiver(h)
    /\ calls' = [calls EXCEPT ![c] =
          Request(c, "delete_book", h, handles[h].proto, <<isbn>>,
                  Address(handles[h].proto, handles[h].base_url,
                          <<"/", "book", "/", isbn>>),
                  "DELETE", None, "bool")]
    /\ UNCHANGED handles

\* register_book going through do_post instead of do_put.
register_bookViaPost(c, h, isbn) ==
    /\ CanCall(c)
    /\ AuthReceiver(h)
    /\ calls' = [calls EXCEPT ![c] =
          Request(c, "register_book", h, handles[h].proto, <<isbn>>,
                  Address(handles[h].proto, handles[h].base_url,
                          <<"/", "book", "/", isbn>>),
                  "POST", <<"Str", isbn>>, "bool")]
    /\ UNCHANGED handles

register_book(c, h, isbn) ==
    /\ CanCall(c)
    /\ AuthReceiver(h)
    /\ calls' = [calls EXCEPT ![c] =
          Request(c, "register_book", h, handles[h].proto, <<isbn>>,
                  Address(handles[h].proto, handles[h].base_url,
                          <<"/", "book", "/", isbn>>),
                  "PUT", <<"Str", isbn>>, "bool")]
    /\ UNCHANGED handles

\* ------------------------------------------------------------------ do_req
\* do_req returns res: to the caller of the endpoint, or for authenticate
\* to its `match res`.
Return(call, res) ==
    IF call.op = "authenticate"
    THEN [call EXCEPT !.pc = "match", !.res = res]
    ELSE [call EXCEPT !.pc = "done", !.res = res, !.result = res]

\* try_error without the early return: the Err arm falls through.
try_errorFallsThrough(call, ok, kind, next) == next

\* try_error!(e, kind): continue with the value, or return Err(kind(e)).
try_error(call, ok, kind, next) ==
    IF ok THEN next ELSE Return(call, Err(kind))

\* A step of do_req ran: it is appended to the call's trace, and a step whose
\* library call returned Err is remembered in `failed`.
Step(call, name, ok) ==
    [call EXCEPT !.trace = Append(@, name), !.failed = IF ok THEN @ ELSE name]

\* Open retrying cb(url) after a failure instead of returning.
OpenRetries(c) ==
    /\ calls[c].pc = "open"
    /\ \E ok \in BOOLEAN :
         LET call == Step(calls[c], "open", ok)
         IN  calls' = [calls EXCEPT ![c] =
                 IF ok THEN [call EXCEPT !.pc = "start"] ELSE call]
    /\ UNCHANGED handles

\* let req = try_error!(cb(url), Error::HttpError);
Open(c) ==
    /\ calls[c].pc = "open"
    /\ \E ok \in BOOLEAN :
         LET call == Step(calls[c], "open", ok)
         IN  calls' = [calls EXCEPT ![c] =
                 try_error(call, ok, "HttpError", [call EXCEPT !.pc = "start"])]
    /\ UNCHANGED handles

\* let mut req = try_error!(req.start(), Error::HttpError); match data {...}
Start(c) ==
    /\ calls[c].pc = "start"
    /\ \E ok \in BOOLEAN :
         LET call == Step(calls[c], "start", ok)
         IN  calls' = [calls EXCEPT ![c] =
                 try_error(call, ok, "HttpError",
                     [call EXCEPT !.pc = IF call.data # None THEN "write" ELSE "send"])]
    /\ UNCHANGED handles

\* WriteBody wrapping the write failure in Error::HttpError.
WriteBodyHttpKind(c) ==
    /\ calls[c].pc = "write"
    /\ \E ok \in BOOLEAN :
         LET call == Step(calls[c], "write", ok)
         IN  calls' = [calls EXCEPT ![c] =
                 try_error(call, ok, "HttpError",
                     [call EXCEPT !.pc = "send", !.written = Encode(call.data)])]
    /\ UNCHANGED handles

\* try_error!(req.write(enc.as_bytes()), Error::IoError);
WriteBody(c) ==
    /\ calls[c].pc = "write"
    /\ \E ok \in BOOLEAN :
         LET call == Step(calls[c], "write", ok)
         IN  calls' = [calls EXCEPT ![c] =
                 try_error(call, ok, "IoError",
                     [call EXCEPT !.pc = "send", !.written = Encode(call.data)])]
    /\ UNCHANGED handles

\* let mut resp = try_error!(req.send(), Error::HttpError);
Send(c) ==
    /\ calls[c].pc = "send"
    /\ \E ok \in BOOLEAN, status \in Statuses :
         LET call == Step(calls[c], "send", ok)
         IN  calls' = [calls EXCEPT ![c] =
                 try_error(call, ok, "HttpError",
                     [call EXCEPT !.pc = "classify", !.status = status])]
    /\ UNCHANGED handles

\* match resp.status { ... }
Classify(c) ==
    /\ calls[c].pc = "classify"
    /\ LET call == Step(calls[c], "classify", TRUE)
       IN  calls' = [calls EXCEPT ![c] =
               IF StatusError(call.status) = ""
               THEN [call EXCEPT !.pc = "read"]
               ELSE Return(call, Err(StatusError(call.status)))]
    /\ UNCHANGED handles

\* ReadBody reading from a stream shared by the calls in flight: the read
\* of one call also consumes the response of every other call waiting to read.
ReadBodySharedStream(c) ==
    /\ calls[c].pc = "read"
    /\ \E ok \in BOOLEAN, body \in Bodies :
         calls' = [d \in DOMAIN calls |->
                     IF calls[d].pc = "read"
                     THEN LET call == Step(calls[d], "read", ok)
                          IN  try_error(call, ok, "IoError",
                                  [call EXCEPT !.pc = "decode", !.body = body])
                     ELSE calls[d]]
    /\ UNCHANGED handles

\* let str = try_error!(resp.read_to_string(), Error::IoError);
ReadBody(c) ==
    /\ calls[c].pc = "read"
    /\ \E ok \in BOOLEAN, body \in Bodies :
         LET call == Step(calls[c], "read", ok)
         IN  calls' = [calls EXCEPT ![c] =
                 try_error(call, ok, "IoError",
                     [call EXCEPT !.pc = "decode", !.body = body])]
    /\ UNCHANGED handles

\* DecodeBody with a check that turns a null or empty body into GotNull.
DecodeBodyGotNull(c) ==
    /\ calls[c].pc = "decode"
    /\ LET val == Decode(calls[c].U, calls[c].body)
           call == Step(calls[c], "decode", val.ok)
       IN  calls' = [calls EXCEPT ![c] =
               IF call.body \in {"null", ""}
               THEN Return(call, Err("GotNull"))
               ELSE try_error(call, val.ok, "JsonError", Return(call, val))]
    /\ UNCHANGED handles

\* let val: U = try_error!(json::decode(str), Error::JsonError); Ok(val)
DecodeBody(c) ==
    /\ calls[c].pc = "decode"
    /\ LET val == Decode(calls[c].U, calls[c].body)
           call == Step(calls[c], "decode", val.ok)
       IN  calls' = [calls EXCEPT ![c] =
               try_error(call, val.ok, "JsonError", Return(call, val))]
    /\ UNCHANGED handles

\* AuthenticateMatch returning serv without looking at res.
AuthenticateMatchIgnoresRes(c) ==
    /\ calls[c].pc = "match"
    /\ calls' = [calls EXCEPT ![c] =
           [calls[c] EXCEPT !.pc = "done", !.result = Ok("Server"),
                            !.serv = NoHandle]]
    /\ handles' = [handles EXCEPT ![calls[c].h] = calls[c].serv]

\* AuthenticateMatch handing the Unauth handle back to the caller on failure.
AuthenticateMatchKeepsHandle(c) ==
    /\ calls[c].pc = "match"
    /\ LET call == calls[c]
       IN  IF call.res.ok
           THEN /\ calls' = [calls EXCEPT ![c] =
                       [call EXCEPT !.pc = "done", !.result = Ok("Server"),
                                    !.serv = NoHandle]]
                /\ handles' = [handles EXCEPT ![call.h] = call.serv]
           ELSE /\ calls' = [calls EXCEPT ![c] =
                       [call EXCEPT !.pc = "done", !.result = call.res,
                                    !.serv = NoHandle]]
                /\ handles' = [handles EXCEPT ![call.h].st = "live"]

\* AuthenticateMatch returning a handle whose base address was rewritten.
AuthenticateMatchRebases(c) ==
    /\ calls[c].pc = "match"
    /\ LET call == calls[c]
       IN  IF call.res.ok
           THEN /\ calls' = [calls EXCEPT ![c] =
                       [call EXCEPT !.pc = "done", !.result = Ok("Server"),
                                    !.serv = NoHandle]]
                /\ handles' = [handles EXCEPT ![call.h] =
                       [call.serv EXCEPT !.base_url = <<"https", ":", "/", "/">> \o @]]
           ELSE /\ calls' = [calls EXCEPT ![c] =
                       [call EXCEPT !.pc = "done", !.result = call.res,
                                    !.serv = NoHandle]]
                /\ handles' = [handles EXCEPT ![call.h].st = "dropped"]

\* match res { Ok(()) => return Ok(serv), Err(e) => return Err(e) }
AuthenticateMatch(c) ==
    /\ calls[c].pc = "match"
    /\ LET call == calls[c]
       IN  IF call.res.ok
           THEN /\ calls' = [calls EXCEPT ![c] =
                       [call EXCEPT !.pc = "done", !.result = Ok("Server"),
                                    !.serv = NoHandle]]
                /\ handles' = [handles EXCEPT ![call.h] = call.serv]
           ELSE /\ calls' = [calls EXCEPT ![c] =
                       [call EXCEPT !.pc = "done", !.result = call.res,
                                    !.serv = NoHandle]]
                /\ handles' = [handles EXCEPT ![call.h].st = "dropped"]

\* ------------------------------------------------------------------ spec
Next ==
    \/ \E c \in DOMAIN calls, base \in BaseAddrs : New(c, base)
    \/ \E c \in DOMAIN calls, h \in DOMAIN handles, count \in Counts : get_books(c, h, count)
    \/ \E c \in DOMAIN calls, h \in DOMAIN handles, isbn \in Isbns : get_book_by_isbn(c, h, isbn)
    \/ \E c \in DOMAIN calls, h \in DOMAIN handles, user \in Users, pass \in Passes :
          authenticate(c, h, user, pass)
    \/ \E c \in DOMAIN calls, h \in DOMAIN handles, isbn \in Isbns, sid \in StudentIds :
          checkout(c, h, isbn, sid)
    \/ \E c \in DOMAIN calls, h \in DOMAIN handles, isbn \in Isbns, sid \in StudentIds :
          checkin(c, h, isbn, sid)
    \/ \E c \in DOMAIN calls, h \in DOMAIN handles, isbn \in Isbns, book \in Books :
          update_book(c, h, isbn, book)
    \/ \E c \in DOMAIN calls, h \in DOMAIN handles, book \in Books : add_book(c, h, book)
    \/ \E c \in DOMAIN calls, h \in DOMAIN handles, isbn \in Isbns : delete_book(c, h, isbn)
    \/ \E c \in DOMAIN calls, h \in DOMAIN handles, isbn \in Isbns : register_book(c, h, isbn)
    \/ \E c \in DOMAIN calls : Open(c)
    \/ \E c \in DOMAIN calls : Start(c)
    \/ \E c \in DOMAIN calls : WriteBody(c)
    \/ \E c \in DOMAIN calls : Send(c)
    \/ \E c \in DOMAIN calls : Classify(c)
    \/ \E c \in DOMAIN calls : ReadBody(c)
    \/ \E c \in DOMAIN calls : DecodeBody(c)
    \/ \E c \in DOMAIN calls : AuthenticateMatch(c)

Spec == Init /\ [][Next]_vars

\* Two threads making calls at the same time, sharing the handles read-only
\* (authenticate needs its handle by value, so it never overlaps another
\* call on it).
ConcThreads == {"t1", "t2"}

InitConc ==
    /\ handles = [h \in 1..ConcHandles |-> NoHandle]
    /\ calls = [c \in ConcThreads |-> IdleCall]

\* Inputs of the two-thread specification.
ConcBaseAddrs == { <<"host", ":", "80">>, <<"host">> }
ConcIsbns == {"9"}
ConcStatuses == {200, 404}
ConcBodies == {"null", "true", "[]"}

NextConc ==
    \/ \E c \in DOMAIN calls, base \in ConcBaseAddrs : New(c, base)
    \/ \E c \in DOMAIN calls, h \in DOMAIN handles, count \in Counts :
          get_books(c, h, count)
    \/ \E c \in DOMAIN calls, h \in DOMAIN handles, isbn \in ConcIsbns :
          get_book_by_isbn(c, h, isbn)
    \/ \E c \in DOMAIN calls, h \in DOMAIN handles, user \in Users, pass \in Passes :
          authenticate(c, h, user, pass)
    \/ \E c \in DOMAIN calls, h \in DOMAIN handles, isbn \in ConcIsbns,
             sid \in StudentIds : checkout(c, h, isbn, sid)
    \/ \E c \in DOMAIN calls, h \in DOMAIN handles, isbn \in ConcIsbns,
             sid \in StudentIds : checkin(c, h, isbn, sid)
    \/ \E c \in DOMAIN calls, h \in DOMAIN handles, isbn \in ConcIsbns,
             book \in Books : update_book(c, h, isbn, book)
    \/ \E c \in DOMAIN calls, h \in DOMAIN handles, book \in Books :
          add_book(c, h, book)
    \/ \E c \in DOMAIN calls, h \in DOMAIN handles, isbn \in ConcIsbns :
          delete_book(c, h, isbn)
    \/ \E c \in DOMAIN calls, h \in DOMAIN handles, isbn \in ConcIsbns :
          register_book(c, h, isbn)
    \/ \E c \in DOMAIN calls : Open(c)
    \/ \E c \in DOMAIN calls : Start(c)
    \/ \E c \in DOMAIN calls : WriteBody(c)
    \/ \E c \in DOMAIN calls : Send(c) /\ calls'[c].status \in ConcStatuses \cup {0}
    \/ \E c \in DOMAIN calls : Classify(c)
    \/ \E c \in DOMAIN calls :
          ReadBody(c) /\ calls'[c].body \in ConcBodies \cup {"none"}
    \/ \E c \in DOMAIN calls : DecodeBody(c)
    \/ \E c \in DOMAIN calls : AuthenticateMatch(c)

SpecConc == InitConc /\ [][NextConc]_vars

TypeOK ==
    /\ \A h \in DOMAIN handles : handles[h].st \in {"none", "live", "moved", "dropped"}
    /\ \A c \in DOMAIN calls : calls[c].status \in Statuses \cup {0}

\* ------------------------------------------------------------------ claims
RequestOps == {"get_books", "get_book_by_isbn", "authenticate", "checkout",
               "checkin", "update_book", "add_book", "delete_book", "register_book"}
Privileged == {"checkout", "checkin", "update_book", "add_book", "delete_book",
               "register_book"}

\* The step has run in the call.
Ran(call, name) == \E i \in 1..Len(call.trace) : call.trace[i] = name

\* C1: once the status match of do_req has run on a response, the status
\* alone fixes the branch, whatever the endpoint and method: 404 returns
\* NotFound, 500 InternalError, 401 AuthError, any other non-200 status
\* ApiSaidNo, and 200 goes on to read (and decode) the body.
C1_StatusDecidesBranch ==
    \A c \in DOMAIN calls :
      LET call == calls[c]
      IN  Ran(call, "classify") =>
            /\ call.status = 404 => call.res = Err("NotFound")
            /\ call.status = 500 => call.res = Err("InternalError")
            /\ call.status = 401 => call.res = Err("AuthError")
            /\ call.status \notin {200, 404, 500, 401} => call.res = Err("ApiSaidNo")
            /\ call.status = 200 =>
                 \/ call.pc = "read"
                 \/ Ran(call, "read") /\ call.res.err \notin
                       {"NotFound", "InternalError", "AuthError", "ApiSaidNo"}

\* A DELETE request answered 401 returned AuthError.
C1_Witness ==
    \E c \in DOMAIN calls :
      /\ calls[c].method = "DELETE"
      /\ calls[c].status = 401
      /\ calls[c].res = Err("AuthError")

\* C2: a privileged operation (checkout, checkin, update_book, add_book,
\* delete_book, register_book) only ever runs on behalf of an Authenticated
\* handle, so no request of one is issued for an Unauthenticated handle.
C2_PrivilegedOnlyOnAuth ==
    \A c \in DOMAIN calls :
      calls[c].op \in Privileged =>
        /\ calls[c].marker = Auth
        /\ handles[calls[c].h].proto = Auth

\* A privileged request was sent while an Unauthenticated handle is live.
C2_Witness ==
    /\ \E c \in DOMAIN calls : calls[c].op \in Privileged /\ calls[c].status = 200
    /\ \E h \in HandleIds : handles[h].st = "live" /\ handles[h].proto = Unauth

\* C3: every request issued from an Authenticated handle uses a secure scheme
\* that differs from the scheme requests of an Unauthenticated handle use.
C3_AuthRequestsUseSecureScheme ==
    \A c \in DOMAIN calls :
      (calls[c].op \in RequestOps /\ calls[c].marker = Auth /\ Ran(calls[c], "open"))
        => ParseUrl(calls[c].url).scheme # <<proto(Unauth)>>

\* A step that starts an operation other than new in thread c.
Begins(c) == CanCall(c) /\ calls'[c] # calls[c] /\ calls'[c].op # "new"

\* C4: a handle becomes Authenticated only in the step in which an
\* authenticate call returns Ok after a 200 response whose body decoded; a
\* finished authenticate returns Ok with a live Authenticated handle exactly
\* in that case, AuthError after a 401 response, and otherwise the
\* executor's error with no Authenticated handle.
C4_AuthOnlyFromSuccessfulAuthenticate ==
    [][ /\ \A h \in HandleIds :
             (handles'[h].proto = Auth /\ handles[h].proto # Auth) =>
               \E c \in DOMAIN calls :
                 /\ calls[c].op = "authenticate" /\ calls[c].h = h
                 /\ calls[c].status = 200
                 /\ Ran(calls[c], "decode")
                 /\ Decode("unit", calls[c].body).ok
                 /\ calls'[c].result = Ok("Server")
        /\ \A c \in DOMAIN calls :
             LET call == calls'[c]
             IN  (call.op = "authenticate" /\ call.pc = "done") =>
                   /\ call.result.ok <=>
                        (call.status = 200 /\ call.failed = ""
                           /\ Decode("unit", call.body).ok)
                   /\ call.result.ok =>
                        (handles'[call.h].st = "live" /\ handles'[call.h].proto = Auth)
                   /\ (call.status = 401 /\ Ran(call, "classify")) =>
                        call.result = Err("AuthError")
                   /\ ~call.result.ok =>
                        /\ call.result = call.res
                        /\ call.result.err \in Error
                        /\ handles'[call.h].proto = Unauth
                        /\ handles'[call.h].st = "dropped"
      ]_vars

\* An authenticate call returned an Authenticated handle.
C4_Witness ==
    \E c \in DOMAIN calls :
      /\ calls[c].op = "authenticate" /\ calls[c].pc = "done"
      /\ calls[c].result = Ok("Server")
      /\ handles[calls[c].h].proto = Auth

\* C5: authentication is one-way and consuming: an operation starts only on
\* a live handle and authenticate only on a live Unauthenticated one; a
\* handle moved into authenticate or dropped never becomes a live
\* Unauthenticated handle again, a dropped handle stays dropped, and an
\* Authenticated handle stays live and Authenticated.
C5_AuthenticateConsumesOneWay ==
    [][ /\ \A h \in HandleIds :
             /\ handles[h].st \in {"moved", "dropped"} =>
                  ~(handles'[h].st = "live" /\ handles'[h].proto = Unauth)
             /\ handles[h].st = "dropped" => handles'[h].st = "dropped"
             /\ handles[h].proto = Auth =>
                  (handles'[h].proto = Auth /\ handles'[h].st = "live")
             /\ (handles[h].proto = Unauth /\ handles'[h].proto = Auth) =>
                  handles[h].st = "moved"
        /\ \A c \in DOMAIN calls :
             /\ Begins(c) => handles[calls'[c].h].st = "live"
             /\ (Begins(c) /\ calls'[c].op = "authenticate") =>
                  /\ handles[calls'[c].h].proto = Unauth
                  /\ handles'[calls'[c].h].st \in {"moved", "dropped"}
      ]_vars

\* After a failed authenticate dropped its handle the thread went on to use
\* another handle, which is Authenticated.
C5_Witness ==
    /\ \E h \in HandleIds : handles[h].st = "dropped"
    /\ \E c \in DOMAIN calls :
         /\ calls[c].op \in Privileged
         /\ handles[calls[c].h].proto = Auth

\* C6: a failure to open, start or send the request returns HttpError, a
\* failure to write the body or to read the response body returns IoError,
\* and a failure to decode the body of a 200 response returns JsonError.
C6_FailingStepErrorVariant ==
    \A c \in DOMAIN calls :
      LET call == calls[c]
      IN  /\ call.failed \in {"open", "start", "send"} => call.res = Err("HttpError")
          /\ call.failed \in {"write", "read"} => call.res = Err("IoError")
          /\ call.failed = "decode" =>
               (call.status = 200 /\ call.res = Err("JsonError"))
          /\ (Ran(call, "decode") /\ ~Decode(call.U, call.body).ok) =>
               call.failed = "decode"

\* Writing the body of a request failed and the call returned IoError.
C6_Witness ==
    \E c \in DOMAIN calls :
      /\ calls[c].failed = "write"
      /\ calls[c].res = Err("IoError")
      /\ calls[c].data # None

\* The steps of do_req for a call, in order.
StepOrder(call) ==
    <<"open", "start">> \o (IF call.data # None THEN <<"write">> ELSE <<>>)
      \o <<"send", "classify", "read", "decode">>

\* C7: the steps a call has run are a prefix of open, start, write (only
\* with a body), send, classify, read, decode; once a step has failed or the
\* status was not 200 no further step of that call runs, so a request whose
\* open, start or write failed is never sent and the body of a non-200
\* response is never read.
C7_OrderAndShortCircuit ==
    [][ \A c \in DOMAIN calls :
          LET old == calls[c]
              new == calls'[c]
          IN  /\ Len(new.trace) <= Len(StepOrder(new))
              /\ new.trace = SubSeq(StepOrder(new), 1, Len(new.trace))
              /\ new.failed # "" => new.trace[Len(new.trace)] = new.failed
              /\ (Ran(new, "classify") /\ new.status # 200) =>
                   (~Ran(new, "read") /\ new.body = "none")
              /\ ((old.failed # "" \/ (Ran(old, "classify") /\ old.status # 200))
                    /\ ~CanCall(c)) =>
                   (new.trace = old.trace /\ new.written = old.written)
              /\ (old.failed # "" \/ (Ran(old, "classify") /\ old.status # 200)) =>
                   old.res.err \in Error
      ]_vars

\* A request with a body was answered 404 and the call ended after the
\* status match, without reading a body.
C7_Witness ==
    \E c \in DOMAIN calls :
      /\ calls[c].trace = <<"open", "start", "write", "send", "classify">>
      /\ calls[c].status = 404
      /\ calls[c].pc = "done"

\* C8 as stated: a 200 response to get_book_by_isbn with an empty body returns
\* an empty Optional, and a 404 response returns NotFound.
C8_EmptyBodyIsNone ==
    \A c \in DOMAIN calls :
      LET call == calls[c]
      IN  (call.op = "get_book_by_isbn" /\ call.pc = "done") =>
            /\ (call.status = 200 /\ call.body = "") => call.result = Ok("None")
            /\ (call.status = 404) => call.result = Err("NotFound")

\* C8 (amended): a 200 response to get_book_by_isbn whose body is the JSON
\* value null returns the empty Optional in the success channel; a 200
\* response with a zero-length body returns JsonError; a 404 response
\* returns NotFound; no call that got a response aborts.
C8_NullBodyIsNone ==
    \A c \in DOMAIN calls :
      LET call == calls[c]
      IN  /\ (call.op = "get_book_by_isbn" /\ call.pc = "done") =>
               /\ (call.status = 200 /\ call.body = "null") =>
                    call.result = Ok("None")
               /\ (call.status = 200 /\ call.body = "") =>
                    call.result = Err("JsonError")
               /\ (call.status = 404) => call.result = Err("NotFound")
               /\ call.result = Ok("None") => call.status = 200
          /\ (call.op = "get_book_by_isbn" /\ call.status # 0) =>
               call.pc # "panicked"

\* get_book_by_isbn got 200 with a null body and returned the empty Optional.
C8_Witness ==
    \E c \in DOMAIN calls :
      /\ calls[c].op = "get_book_by_isbn" /\ calls[c].pc = "done"
      /\ calls[c].status = 200 /\ calls[c].body = "null"
      /\ calls[c].result = Ok("None")

\* C9: for the privileged operations a 200 response with body false returns
\* Ok(false) and with body true Ok(true); an Err is returned only when a
\* step failed, the status was not 200 or the body did not decode to a bool.
C9_BusinessOutcomeInSuccessChannel ==
    \A c \in DOMAIN calls :
      LET call == calls[c]
      IN  (call.op \in Privileged /\ call.pc = "done") =>
            /\ (call.status = 200 /\ call.failed = "" /\ call.body = "false") =>
                 call.result = Ok("false")
            /\ (call.status = 200 /\ call.failed = "" /\ call.body = "true") =>
                 call.result = Ok("true")
            /\ ~call.result.ok =>
                 \/ call.failed \in {"open", "start", "write", "send", "read"}
                 \/ call.status # 200
                 \/ call.body \notin {"true", "false"}

\* add_book was answered 200 with body false and returned Ok(false).
C9_Witness ==
    \E c \in DOMAIN calls :
      /\ calls[c].op = "add_book" /\ calls[c].pc = "done"
      /\ calls[c].status = 200 /\ calls[c].body = "false"
      /\ calls[c].result = Ok("false")

C11_MethodPerEndpoint ==
    \A c \in DOMAIN calls :
      LET call == calls[c]
      IN  (call.op \in RequestOps /\ Ran(call, "open")) =>
            /\ call.op \in {"get_books", "get_book_by_isbn", "authenticate"} =>
                 call.method = "GET"
            /\ call.op \in {"checkout", "checkin", "update_book"} =>
                 call.method = "POST"
            /\ call.op \in {"add_book", "register_book"} => call.method = "PUT"
            /\ call.op = "delete_book" => call.method = "DELETE"

\* A register_book request was sent with PUT and answered.
C11_Witness ==
    \E c \in DOMAIN calls :
      /\ calls[c].op = "register_book"
      /\ calls[c].method = "PUT"
      /\ Ran(calls[c], "send") /\ calls[c].status # 0

\* C12: a call opens at most one request and gets at most one response (no
\* step of the executor runs twice); a failed step is returned in the same
\* step as an Error variant, never retried and never turned into a success;
\* a call returns Ok only after the body of a 200 response was read and
\* decoded.
C12_OneRoundTripNoRetry ==
    \A c \in DOMAIN calls :
      LET call == calls[c]
      IN  call.op \in RequestOps =>
            /\ \A i, j \in 1..Len(call.trace) :
                 i # j => call.trace[i] # call.trace[j]
            /\ call.failed # "" =>
                 /\ call.pc \in {"done", "match"}
                 /\ ~call.res.ok /\ call.res.err \in Error
            /\ (call.failed # "" /\ call.pc = "done") =>
                 (~call.result.ok /\ call.result = call.res)
            /\ (call.pc = "done" /\ call.result.ok) =>
                 /\ call.status = 200
                 /\ Ran(call, "send") /\ Ran(call, "read") /\ Ran(call, "decode")
                 /\ call.body \in Bodies
            /\ call.pc = "done" => (call.result.ok \/ call.result.err \in Error)

\* get_books returned a decoded list after one full round trip.
C12_Witness ==
    \E c \in DOMAIN calls :
      /\ calls[c].op = "get_books" /\ calls[c].pc = "done"
      /\ calls[c].result = Ok("[]")
      /\ calls[c].trace = <<"open", "start", "send", "classify", "read", "decode">>

\* C13: on a handle produced by a successful new (or by authenticate from
\* one), no operation aborts because its request address cannot be parsed:
\* every call ends by returning a value or an Error variant.
C13_NoPanicOnRequestAddress ==
    \A c \in DOMAIN calls :
      /\ calls[c].pc # "panicked"
      /\ calls[c].pc = "done" =>
           (calls[c].result.ok \/ calls[c].result.err \in Error
              \/ calls[c].op = "new")

\* What a finished lookup returns, from the failed step, the status and the
\* body alone.
LookupOutcome(call) ==
    IF call.failed \in {"open", "start", "send"} THEN Err("HttpError")
    ELSE IF call.failed = "read" THEN Err("IoError")
    ELSE IF call.status # 200 THEN Err(StatusError(call.status))
    ELSE Decode(IF call.op = "get_books" THEN "Vec<Book>" ELSE "Option<Book>",
                call.body)

\* C14: the receiver condition of get_books and get_book_by_isbn holds of
\* every live handle, Unauthenticated or Authenticated; in both states the request is a GET
\* without body to //{base}/book?count={n} resp. //{base}/book/{isbn}, and
\* the result follows from the failed step, the status and the body in the
\* same way.
C14_LookupsInBothStates ==
    /\ \A h \in DOMAIN handles :
         (handles[h].st = "live" /\ handles[h].proto \in {Unauth, Auth}) =>
           AnyReceiver(h)
    /\ \A c \in DOMAIN calls :
         LET call == calls[c]
             suffix == IF call.op = "get_books"
                       THEN <<"/", "book", "?", "count", "=">> \o call.arg
                       ELSE <<"/", "book", "/">> \o call.arg
         IN  (call.op \in {"get_books", "get_book_by_isbn"}) =>
               /\ call.marker \in {Unauth, Auth}
               /\ SubSeq(call.url, 2, Len(call.url)) =
                    <<":", "/", "/">> \o handles[call.h].base_url \o suffix
               /\ call.pc # "panicked" =>
                    /\ call.method = "GET" /\ call.data = None
                    /\ call.written = None
               /\ call.pc = "done" => call.result = LookupOutcome(call)

\* get_book_by_isbn found a book on an Authenticated handle.
C14_Witness ==
    \E c \in DOMAIN calls :
      /\ calls[c].op = "get_book_by_isbn" /\ calls[c].pc = "done"
      /\ calls[c].marker = Auth
      /\ calls[c].result = Ok("Some(book)")

ActionBody(action, isbn, student_id) ==
    <<"{", "action", ":", action, ",", "isbn", ":", isbn, ",",
      "student_id", ":", student_id, "}">>

C17_HandlesUnchanged ==
    [][ /\ \A c \in DOMAIN calls :
             (calls'[c] # calls[c]
                /\ calls'[c].op \in RequestOps \ {"authenticate"}) =>
               handles' = handles
        /\ \A h \in DOMAIN handles :
             handles[h].st # "none" =>
               /\ handles'[h].base_url = handles[h].base_url
               /\ handles'[h] # handles[h] =>
                    \E c \in DOMAIN calls :
                      /\ calls'[c].op = "authenticate" /\ calls'[c].h = h
                      /\ calls'[c] # calls[c]
               /\ (handles[h].proto = Unauth /\ handles'[h].proto = Auth) =>
                    /\ handles'[h].st = "live"
                    /\ \E c \in DOMAIN calls :
                         /\ calls[c].pc = "match" /\ calls[c].h = h
                         /\ handles'[h].base_url = calls[c].serv.base_url
      ]_vars

\* After authenticate returned an Authenticated handle a privileged call on
\* it failed and another one succeeded, with the base address still in place.
C17_Witness ==
    \E c \in DOMAIN calls :
      /\ calls[c].op = "delete_book" /\ calls[c].pc = "done"
      /\ calls[c].result = Ok("true")
      /\ handles[calls[c].h] =
           [st |-> "live", base_url |-> <<"host", ":", "80">>, proto |-> Auth]

CallOutcome(call) ==
    IF call.failed \in {"open", "start", "send"} THEN Err("HttpError")
    ELSE IF call.failed \in {"write", "read"} THEN Err("IoError")
    ELSE IF call.status # 200 THEN Err(StatusError(call.status))
    ELSE Decode(call.U, call.body)

\* C18: with two threads making calls at the same time, on separate handles
\* or on one shared handle, every step changes the locals of one call only
\* and, unless it belongs to authenticate, no handle; the result of every
\* finished call follows from the failed step, the status and the body of
\* that call's own request.
C18_CallsIndependent ==
    [][ /\ \A c, d \in DOMAIN calls :
             (c # d /\ calls'[c] # calls[c]) => calls'[d] = calls[d]
        /\ \A c \in DOMAIN calls :
             (calls'[c] # calls[c]
                /\ calls'[c].op \in RequestOps \ {"authenticate"}) =>
               handles' = handles
        /\ \A c \in DOMAIN calls :
             LET call == calls'[c]
             IN  (call.op \in RequestOps /\ call.pc \in {"done", "match"}) =>
                   /\ call.res = CallOutcome(call)
                   /\ call.pc = "done" =>
                        call.result = IF call.op = "authenticate" /\ call.res.ok
                                      THEN Ok("Server") ELSE call.res
      ]_vars

\* Two threads finished calls on the same Authenticated handle with
\* different outcomes, each that of its own response.
C18_Witness ==
    \E c, d \in DOMAIN calls :
      /\ c # d
      /\ calls[c].h = calls[d].h
      /\ calls[c].op = "checkout" /\ calls[c].pc = "done"
      /\ calls[c].status = 200 /\ calls[c].result = Ok("true")
      /\ calls[d].op = "checkout" /\ calls[d].pc = "done"
      /\ calls[d].status = 404 /\ calls[d].result = Err("NotFound")

====
